---------------------------- MODULE Spec2Model ----------------------------
(***************************************************************************)
(* A model of the Heptapod B semagram generator (src/script.js).           *)
(*                                                                         *)
(* Conventions                                                             *)
(*   - A string is the sequence of its UTF-16 code units (charCodeAt).     *)
(*   - A 32-bit word is a pair <<hi, lo>> of 16-bit limbs, because the     *)
(*     model checker's integers are 32-bit signed.                         *)
(*   - A slider value (min 0, max 1, step 0.01) is its number of           *)
(*     hundredths, 0..100.                                                 *)
(***************************************************************************)
EXTENDS Integers, Sequences, FiniteSets, TLC

VARIABLES
    \* The component HeptapodSemagramLab.
    mode,          \* useState: "single" | "composite" | "blend"
    p,             \* useState: SemagramParams of phrase A
    p2,            \* useState: SemagramParams of phrase B
    blend,         \* useState: the blend weight, in hundredths
    glyphSingle,   \* useMemo(() => generateSegments(p), [p])
    glyphBlendA,   \* useMemo(() => generateSegments(p), [p])
    glyphBlendB,   \* useMemo(() => generateSegments(p2), [p2])
    calls,         \* the calls of generateSegments the last render made
    edits,         \* how many times setP / setP2 were called (bounded)
    \* One call of hashStringToInt(str).
    hashStr,       \* the argument str
    hashI,         \* the loop variable i (1-based)
    hashH,         \* the local h
    hashRet,       \* the value returned, <<>> before the return
    \* One call of splitContentWords(text).
    tokText,       \* the argument text
    tokPc,         \* "call" before the call, "done" after
    tokWords,      \* the array returned
    \* Successive calls of generateSegments with one argument.
    genP,          \* the argument p
    genOuts,       \* the values returned, in call order
    genWordCount,  \* the argument the last call gave chooseSpokes
    genCalls,      \* how many calls of generateSegments were made so far
    \* Two closures returned by mulberry32.
    rngSeed,       \* the argument each was created with
    rngA,          \* the variable a of each
    rngOut         \* the values each has returned, in order

uiVars == <<mode, p, p2, blend, glyphSingle, glyphBlendA, glyphBlendB, calls, edits>>

hashVars == <<hashStr, hashI, hashH, hashRet>>

tokVars == <<tokText, tokPc, tokWords>>

genVars == <<genP, genOuts, genWordCount, genCalls>>

rngVars == <<rngSeed, rngA, rngOut>>

vars == <<uiVars, hashVars, tokVars, genVars, rngVars>>

---------------------------------------------------------------------------
(* 32-bit integer arithmetic of the JavaScript operators used by the code. *)

B16 == 65536

RECURSIVE BitXor(_, _)
BitXor(a, b) ==
    IF a = 0 THEN b
    ELSE IF b = 0 THEN a
    ELSE (((a % 2) + (b % 2)) % 2) + 2 * BitXor(a \div 2, b \div 2)

RECURSIVE BitOr(_, _)
BitOr(a, b) ==
    IF a = 0 THEN b
    ELSE IF b = 0 THEN a
    ELSE (IF (a % 2) + (b % 2) > 0 THEN 1 ELSE 0) + 2 * BitOr(a \div 2, b \div 2)

\* Tables of the two operators on 4-bit digits.
XorTable == [a \in 0..15 |-> [b \in 0..15 |-> BitXor(a, b)]]

OrTable == [a \in 0..15 |-> [b \in 0..15 |-> BitOr(a, b)]]

Digits16(T, a, b) ==
    T[a % 16][b % 16]
    + (16 * T[(a \div 16) % 16][(b \div 16) % 16])
    + (256 * T[(a \div 256) % 16][(b \div 256) % 16])
    + (4096 * T[a \div 4096][b \div 4096])

\* x ^ y on 32-bit words.
Xor32(x, y) == <<Digits16(XorTable, x[1], y[1]), Digits16(XorTable, x[2], y[2])>>

\* x | y on 32-bit words.
Or32(x, y) == <<Digits16(OrTable, x[1], y[1]), Digits16(OrTable, x[2], y[2])>>

\* x >>> n for the shift counts the code uses (7, 14, 15).
Shr32(x, n) ==
    <<x[1] \div (2 ^ n), ((x[1] % (2 ^ n)) * (2 ^ (16 - n))) + (x[2] \div (2 ^ n))>>

\* (x + y) mod 2^32.
Add32(x, y) ==
    LET lo == x[2] + y[2]
    IN  <<(x[1] + y[1] + (lo \div B16)) % B16, lo % B16>>

\* The full product of two 16-bit numbers, as a 32-bit word.
Mul16(a, b) ==
    LET x == a * (b \div 256)
        y == a * (b % 256)
        l == ((x % 256) * 256) + y
    IN  <<((x \div 256) + (l \div B16)) % B16, l % B16>>

\* Math.imul(x, y): the low 32 bits of the product.
Imul(x, y) ==
    LET ll == Mul16(x[2], y[2])
        hl == Mul16(x[1], y[2])
        lh == Mul16(x[2], y[1])
    IN  <<(ll[1] + hl[2] + lh[2]) % B16, ll[2]>>

U32(hi, lo) == <<hi, lo>>

IsU32(x) == x[1] \in 0..(B16 - 1) /\ x[2] \in 0..(B16 - 1)

Zero32 == U32(0, 0)

---------------------------------------------------------------------------
(* hashStringToInt: 32-bit FNV-1a over the code units of the string.       *)

\* let h = 2166136261  (0x811C9DC5)
FnvOffset == U32(33052, 40389)

\* 16777619  (0x01000193)
FnvPrime == U32(256, 403)

\* One pass of the loop body: h ^= str.charCodeAt(i); h = Math.imul(h, 16777619).
HashLoopBody(h, c) == Imul(Xor32(h, U32(0, c)), FnvPrime)

\* return (h >>> 0) || 1
HashReturnZeroAsIs(h) == h

HashReturn(h) == IF h = Zero32 THEN U32(0, 1) ELSE h

\* The loop from index i (1-based) on, then the return.  h is a 32-bit word
\* at every pass; testing it first also has each pass evaluated in turn.
RECURSIVE HashFrom(_, _, _)
HashFrom(h, str, i) ==
    IF ~IsU32(h) THEN <<>>
    ELSE IF i > Len(str) THEN HashReturn(h)
    ELSE HashFrom(HashLoopBody(h, str[i]), str, i + 1)

hashStringToInt(str) == HashFrom(FnvOffset, str, 1)

---------------------------------------------------------------------------
(* mulberry32: the seeded stream.  The closure variable a is a JavaScript  *)
(* number: a += 0x6d2b79f5 does not wrap, so the high limb of a grows; the *)
(* bitwise operators that follow read a modulo 2^32.                       *)

\* 0x6d2b79f5
MulberryIncrement == U32(27947, 31221)

\* a += 0x6d2b79f5
MulberryAdvance(a) ==
    LET lo == a[2] + MulberryIncrement[2]
    IN  <<a[1] + MulberryIncrement[1] + (lo \div B16), lo % B16>>

\* ToInt32 / ToUint32 of a non-negative number.
ToUint32(a) == <<a[1] % B16, a[2]>>

\* The value one call returns, as the numerator of a fraction over 2^32.
MulberryOutput(a) ==
    LET t0 == ToUint32(a)
        t1 == Imul(Xor32(t0, Shr32(t0, 15)), Or32(t0, U32(0, 1)))
        t2 == Xor32(t1, Add32(t1, Imul(Xor32(t1, Shr32(t1, 7)), Or32(t1, U32(0, 61)))))
    IN  Xor32(t2, Shr32(t2, 14))

\* n >= 1 successive calls of the closure whose variable is a: the values
\* returned, in order, and the variable afterwards.  The calls are split in
\* two halves, the second continuing from the state the first leaves.  The
\* variable is never negative; testing it first has the calls evaluated in
\* turn.
RECURSIVE MulberryCalls(_, _)
MulberryCalls(a, n) ==
    IF a[1] < 0 THEN [a |-> a, out |-> <<>>]
    ELSE IF n = 1
    THEN LET a1 == MulberryAdvance(a)
         IN  [a |-> a1, out |-> <<MulberryOutput(a1)>>]
    ELSE LET L == MulberryCalls(a, n \div 2)
             R == MulberryCalls(L.a, n - (n \div 2))
         IN  [a |-> R.a, out |-> L.out \o R.out]

MulberryDraws(a, n) == IF n = 0 THEN <<>> ELSE MulberryCalls(a, n).out

\* A generator shared by the calls: each call goes on from the state the
\* calls before it left.
mulberry32Shared(a) == IF genCalls = 0 THEN a ELSE MulberryCalls(a, genCalls).a

\* mulberry32(a): the state of a fresh closure, its variable a.
mulberry32(a) == a

\* rnd() > 0.5
AboveHalf(u) == u[1] > 32768 \/ (u[1] = 32768 /\ u[2] > 0)

---------------------------------------------------------------------------
(* Geometry helpers.                                                       *)

clamp(n, lo, hi) ==
    LET m == IF hi < n THEN hi ELSE n
    IN  IF lo > m THEN lo ELSE m

candidatesUnsorted == <<7, 9, 13, 11, 17, 19>>

candidates == <<7, 9, 11, 13, 17, 19>>

\* Indexes are 0-based in the code, 1-based here.
chooseSpokes(wordCount) ==
    LET idx == clamp((wordCount - 3) \div 3, 0, Len(candidates) - 1)
    IN  candidates[idx + 1]

---------------------------------------------------------------------------
(* Text.                                                                   *)

\* String.prototype.toLowerCase on one code unit (Basic Latin, Latin-1).
LowerUnit(c) ==
    IF c \in 65..90 THEN c + 32
    ELSE IF c \in 192..222 /\ c # 215 THEN c + 32
    ELSE c

toLowerCase(text) == [i \in 1..Len(text) |-> LowerUnit(text[i])]

\* The character class [a-z0-9'].
IsWordUnit(c) == c \in 97..122 \/ c \in 48..57 \/ c = 39

\* text.match(/[a-z0-9']+/g) || []: the maximal runs, left to right.
\* run is the run being read at position i, out the runs already closed.
RECURSIVE MatchRuns(_, _, _, _)
MatchRuns(text, i, run, out) ==
    IF i > Len(text)
    THEN IF run = <<>> THEN out ELSE Append(out, run)
    ELSE IF IsWordUnit(text[i])
         THEN MatchRuns(text, i + 1, Append(run, text[i]), out)
         ELSE MatchRuns(text, i + 1, <<>>,
                        IF run = <<>> THEN out ELSE Append(out, run))

\* "the", "a", "an", "and", "or", "but", "is", "was", "am", "are"
StopWords ==
    { <<116, 104, 101>>, <<97>>, <<97, 110>>, <<97, 110, 100>>, <<111, 114>>,
      <<98, 117, 116>>, <<105, 115>>, <<119, 97, 115>>, <<97, 109>>,
      <<97, 114, 101>> }

\* .filter((w) => !StopWords.includes(w))
RECURSIVE FilterStopWords(_)
FilterStopWords(ws) ==
    IF ws = <<>> THEN <<>>
    ELSE (IF Head(ws) \in StopWords THEN <<>> ELSE <<Head(ws)>>)
         \o FilterStopWords(Tail(ws))

\* The same without text.toLowerCase().
splitContentWordsCaseKept(text) == FilterStopWords(MatchRuns(text, 1, <<>>, <<>>))

splitContentWords(text) ==
    FilterStopWords(MatchRuns(toLowerCase(text), 1, <<>>, <<>>))

---------------------------------------------------------------------------
(* generateSegments.                                                       *)
(*                                                                         *)
(* Ring and spoke counts are computed exactly.  A floating-point quantity  *)
(* (an angle, a radius, a width, an opacity) is represented by the record  *)
(* of the integers it is computed from: the parameters in hundredths, the  *)
(* ring and spoke indexes, and the stream values drawn for it.  The        *)
(* argument p of the code is named q here (p is the component's state).    *)

radiusBase == 100

\* 3 + Math.floor(temporality * 3 + rnd() * 2), with temporality = t/100 and
\* rnd() = u/2^32.  For a slider value t the sum is never within rounding
\* error of an integer it has not reached, so the floor is the exact one:
\* floor(3t/100 + u/2^31) = floor((3t * 2^15 + X) / (100 * 2^15)), where
\* X = floor(100u / 2^16).
RingsBeforeClamp(t, u) ==
    LET X == (100 * u[1]) + ((100 * u[2]) \div B16)
    IN  3 + (((3 * t * 32768) + X) \div 3276800)

\* words.length
WordCountAsIs(words) == Len(words)

\* words.length || 1
WordCountOrOne(words) == IF Len(words) = 0 THEN 1 ELSE Len(words)

\* const baseSeed = hashStringToInt(p.seed + "|" + p.proposition)
SeedKey(q) == q.seed \o <<124>> \o q.proposition

baseSeed(q) == hashStringToInt(SeedKey(q))

\* String(i) for i >= 0.
RECURSIVE ToDecimal(_)
ToDecimal(i) ==
    IF i < 10 THEN <<48 + i>> ELSE Append(ToDecimal(i \div 10), 48 + (i % 10))

\* lerp(a, b, t) = a + (b - a) * t in thousandths, for a and b in tenths
\* and t in hundredths.
LerpThousandths(a, b, t) == (100 * a) + ((b - a) * t)

\* The certainties k/100 for which the double lerp(4, 9, 1 - k/100) is just
\* below 4 + 5 (1 - k/100), a value halfway between two tenths.
NegationHalfBelow ==
    {1, 3, 7, 11, 13, 17, 23, 29, 31, 33, 39, 49, 53, 63, 73, 79, 81, 89, 93, 99}

\* The same for lerp(1.5, 4, 1 - k/100).
HypotheticalHalfBelow == {6, 14, 34, 38, 54, 58, 66, 74, 78}

\* x.toFixed(1) for x = v thousandths: the decimal numeral of the tenth
\* nearest to the double x.  No double is halfway between two tenths; when
\* v is, below tells on which side of it the double is.
toFixed1(v, below) ==
    LET n == IF (v % 100) = 50 /\ below THEN v \div 100 ELSE (v + 50) \div 100
    IN  ToDecimal(n \div 10) \o <<46, 48 + (n % 10)>>

\* The same with the branch for negation alone left out.
DashWithoutNegationAlone(q) ==
    IF q.negation /\ q.hypothetical
    THEN << toFixed1(LerpThousandths(20, 60, q.certainty), FALSE) \o <<32>>
            \o toFixed1(LerpThousandths(10, 30, 100 - q.certainty), FALSE) >>
    ELSE IF q.hypothetical
    THEN << toFixed1(LerpThousandths(15, 40, 100 - q.certainty),
                     q.certainty \in HypotheticalHalfBelow) \o <<32>>
            \o toFixed1(LerpThousandths(10, 30, q.certainty), FALSE) >>
    ELSE <<>>

\* The dash attribute (dash?: string): no string, or one string of two
\* lengths separated by a space.
Dash(q) ==
    IF q.negation /\ q.hypothetical
    THEN << toFixed1(LerpThousandths(20, 60, q.certainty), FALSE) \o <<32>>
            \o toFixed1(LerpThousandths(10, 30, 100 - q.certainty), FALSE) >>
    ELSE IF q.negation
    THEN << toFixed1(LerpThousandths(40, 90, 100 - q.certainty),
                     q.certainty \in NegationHalfBelow) \o <<32>>
            \o toFixed1(LerpThousandths(20, 40, q.certainty), FALSE) >>
    ELSE IF q.hypothetical
    THEN << toFixed1(LerpThousandths(15, 40, 100 - q.certainty),
                     q.certainty \in HypotheticalHalfBelow) \o <<32>>
            \o toFixed1(LerpThousandths(10, 30, q.certainty), FALSE) >>
    ELSE <<>>

\* The number of stream values one call draws.
DrawCount(rings, spokes) == 2 + (rings * (1 + (3 * spokes))) + ((rings - 1) * spokes)

\* Segment s of ring i (both 0-based); D is the sequence of stream values
\* in the order the code draws them.
Segment(q, D, spokes, i, s) ==
    LET ringBase == 2 + (i * (1 + (3 * spokes)))
        at == ringBase + 1 + (3 * s)
    IN  [ d |-> [ r |-> [ring |-> i, ringGap |-> D[2]],
                  a0 |-> [spoke |-> s, spokes |-> spokes,
                          modality |-> q.modality, bias |-> D[ringBase + 1]],
                  span |-> [temporality |-> q.temporality, jitter |-> D[at + 1]],
                  direction |-> IF AboveHalf(D[at + 2]) THEN 1 ELSE -1,
                  perspRot |-> q.perspective ],
          w |-> [certainty |-> q.certainty, emphasis |-> q.emphasis, ring |-> i],
          dash |-> Dash(q),
          opacity |-> [draw |-> D[at + 3], agency |-> q.agency] ]

\* Connector s between rings i and i + 1 (0-based).
Connector(q, D, rings, spokes, i, s) ==
    LET at == 2 + (rings * (1 + (3 * spokes))) + (i * spokes) + s
    IN  [ r0 |-> [ring |-> i, ringGap |-> D[2]],
          r1 |-> [ring |-> i + 1, ringGap |-> D[2]],
          a |-> [spoke |-> s, spokes |-> spokes, jitter |-> D[at + 1]],
          w |-> [certainty |-> q.certainty],
          opacity |-> [temporality |-> q.temporality] ]

\* The only element of a one-element set.  { e(x) : x \in {v} } has e read
\* the value of v, computed once, as a local constant does in the code.
Only(S) == CHOOSE x \in S : TRUE

\* The loops of generateSegments (lines 100-151), given the values of the
\* local constants rings and spokes and the stream values D.
Loops(q, rings, spokes, D) ==
    [ segments |->
          [i \in 1..rings |->
              [s \in 1..spokes |-> Segment(q, D, spokes, i - 1, s - 1)]],
      connectors |->
          [i \in 1..(rings - 1) |->
              [s \in 1..spokes |-> Connector(q, D, rings, spokes, i - 1, s - 1)]],
      rings |-> rings,
      spokes |-> spokes,
      radiusBase |-> radiusBase,
      ringGap |-> D[2] ]

\* generateSegments from the stream on: rnd is the fresh closure, wordCount
\* the argument of chooseSpokes.
GenerateFrom(q, rnd, wordCount) ==
    Only({ Loops(q, shape[1], shape[2], MulberryDraws(rnd, DrawCount(shape[1], shape[2]))) :
           shape \in { << clamp(RingsBeforeClamp(q.temporality, MulberryDraws(rnd, 1)[1]), 3, 7),
                          chooseSpokes(wordCount) >> } })

generateSegments(q) ==
    Only({ GenerateFrom(q, rnd, WordCountOrOne(splitContentWords(q.proposition))) :
           rnd \in { mulberry32(baseSeed(q)) } })

---------------------------------------------------------------------------
(* The component HeptapodSemagramLab: its state, and what one render does. *)

\* "She was always there even before I knew her"
TextDefault ==
    <<83, 104, 101, 32, 119, 97, 115, 32, 97, 108, 119, 97, 121, 115, 32, 116,
      104, 101, 114, 101, 32, 101, 118, 101, 110, 32, 98, 101, 102, 111, 114,
      101, 32, 73, 32, 107, 110, 101, 119, 32, 104, 101, 114>>

\* "I only recognized her when time curved back"
TextDefault2 ==
    <<73, 32, 111, 110, 108, 121, 32, 114, 101, 99, 111, 103, 110, 105, 122,
      101, 100, 32, 104, 101, 114, 32, 119, 104, 101, 110, 32, 116, 105, 109,
      101, 32, 99, 117, 114, 118, 101, 100, 32, 98, 97, 99, 107>>

\* "arrival"
SeedArrival == <<97, 114, 114, 105, 118, 97, 108>>

\* "return"
SeedReturn == <<114, 101, 116, 117, 114, 110>>

defaultParams ==
    [ proposition |-> TextDefault, certainty |-> 68, modality |-> 40,
      temporality |-> 82, agency |-> 55, perspective |-> "1st",
      negation |-> FALSE, hypothetical |-> FALSE, emphasis |-> 90,
      seed |-> SeedArrival ]

\* { ...defaultParams, proposition: "I only recognized ...", seed: "return" }
defaultParams2 ==
    [defaultParams EXCEPT !.proposition = TextDefault2, !.seed = SeedReturn]

\* Code units String.prototype.trim removes (WhiteSpace and LineTerminator).
WhiteSpaceUnits ==
    {9, 10, 11, 12, 13, 32, 160, 5760, 8232, 8233, 8239, 8287, 12288, 65279}
    \cup (8192..8202)

RECURSIVE TrimStart(_)
TrimStart(t) ==
    IF t # <<>> /\ Head(t) \in WhiteSpaceUnits THEN TrimStart(Tail(t)) ELSE t

RECURSIVE TrimEnd(_)
TrimEnd(t) ==
    IF t # <<>> /\ t[Len(t)] \in WhiteSpaceUnits
    THEN TrimEnd(SubSeq(t, 1, Len(t) - 1))
    ELSE t

trim(t) == TrimEnd(TrimStart(t))

\* text.split(/\n+/): the pieces between the maximal runs of line feeds,
\* an empty first or last piece included.  piece is the piece being read at
\* position i, out the pieces already closed.
RECURSIVE SplitLines(_, _, _, _)
SplitLines(text, i, piece, out) ==
    IF i > Len(text) THEN Append(out, piece)
    ELSE IF text[i] # 10 THEN SplitLines(text, i + 1, Append(piece, text[i]), out)
    ELSE IF i > 1 /\ text[i - 1] = 10 THEN SplitLines(text, i + 1, piece, out)
    ELSE SplitLines(text, i + 1, <<>>, Append(out, piece))

\* .map((s) => s.trim()).filter(Boolean)
RECURSIVE TrimAndDropEmpty(_)
TrimAndDropEmpty(pieces) ==
    IF pieces = <<>> THEN <<>>
    ELSE (IF trim(Head(pieces)) = <<>> THEN <<>> ELSE <<trim(Head(pieces))>>)
         \o TrimAndDropEmpty(Tail(pieces))

\* The memo clauses, for a mode m and a proposition text.
clauses(m, text) ==
    IF m # "composite" THEN <<>>
    ELSE TrimAndDropEmpty(SplitLines(text, 1, <<>>, <<>>))

\* { ...p, proposition: clause, seed: p.seed + ':' + i }   (i is 0-based)
ClauseParams(q, clause, i) ==
    [q EXCEPT !.proposition = clause, !.seed = q.seed \o <<58>> \o ToDecimal(i)]

palette == <<"#fafafa", "#d1d5db", "#a3a3a3", "#e5e7eb", "#cbd5e1">>

\* A step of a fourteenth of a turn whatever the number of clauses.
CompositeRotationFixedStep(i, n) == [num |-> i, den |-> 14]

\* rot = (i * TAU) / (clauses.length * 7), as a fraction num/den of a full
\* turn (TAU); i is 0-based.
CompositeRotation(i, n) == [num |-> i, den |-> n * 7]

\* scale = 1 - i * 0.06, in hundredths.
CompositeScale(i) == 100 - (6 * i)

\* opacity = 1 - i * 0.07, in hundredths.
CompositeOpacity(i) == 100 - (7 * i)

\* The <g> elements the composite branch renders, first to last, for a mode
\* m and parameters q.
CompositeGroups(m, q) ==
    LET cl == clauses(m, q.proposition)
    IN  [k \in 1..Len(cl) |->
            [ key |-> k - 1,
              rot |-> CompositeRotation(k - 1, Len(cl)),
              scale |-> CompositeScale(k - 1),
              opacity |-> CompositeOpacity(k - 1),
              color |-> palette[((k - 1) % Len(palette)) + 1],
              params |-> ClauseParams(q, cl[k], k - 1) ]]

\* The glyph of one composite group: const g = generateSegments(tParams).
CompositeGlyph(group) == generateSegments(group.params)

\* opacity = 1 - blend * 0.65, in ten-thousandths (blend in hundredths).
BlendOpacityA(w) == 10000 - (65 * w)

\* opacity = 0.35 + blend * 0.6
BlendOpacityBShortSlope(w) == 3500 + (60 * w)

\* opacity = 0.35 + blend * 0.65, in ten-thousandths.
BlendOpacityB(w) == 3500 + (65 * w)

\* The blend branch: two <g> elements and the center node.
BlendGroups(w, q, q2, gA, gB) ==
    << [rotate |-> -15, opacity |-> BlendOpacityA(w), glyph |-> gA,
        params |-> q, color |-> "#e5e7eb"],
       [rotate |-> 15, opacity |-> BlendOpacityB(w), glyph |-> gB,
        params |-> q2, color |-> "#cbd5e1"] >>

\* opacity of the center node: 0.25 + blend * 0.35, in ten-thousandths.
BlendCenterOpacity(w) == 2500 + (35 * w)

\* One call of generateSegments, as the render log records it: the string
\* hashed, the phrase, and the seed the hash gave.
Call(q) == [key |-> SeedKey(q), proposition |-> q.proposition, seed |-> baseSeed(q)]

\* The calls of generateSegments one render makes: the memos whose
\* dependency changed (lines 203-205), then one per composite clause.
RenderCalls(m, q, q2, pChanged, p2Changed) ==
    (IF pChanged THEN <<Call(q), Call(q)>> ELSE <<>>)
    \o (IF p2Changed THEN <<Call(q2)>> ELSE <<>>)
    \o [k \in 1..Len(CompositeGroups(m, q)) |-> Call(CompositeGroups(m, q)[k].params)]

---------------------------------------------------------------------------
(* The event handlers.  Each action is one handler followed by the render  *)
(* it causes.                                                              *)

\* How many calls of setP / setP2 a behaviour of the model makes.
MaxEdits == 1

Modes == {"single", "composite", "blend"}

Perspectives == {"1st", "2nd", "3rd"}

\* Values a slider is moved to, in hundredths.
SliderValues == {0, 100}

BlendValues == {0, 25, 75, 100}

\* Texts typed into "Proposition" / "Proposition A":
\* "the cat sat", "cat\ncat", "cat\n \nsat\n\nran ", "".
PropositionTexts ==
    { <<116, 104, 101, 32, 99, 97, 116, 32, 115, 97, 116>>,
      <<99, 97, 116, 10, 99, 97, 116>>,
      <<99, 97, 116, 10, 32, 10, 115, 97, 116, 10, 10, 114, 97, 110, 32>>,
      <<>> }

\* Texts typed into "Proposition B": "cat", "the cat sat".
Proposition2Texts ==
    { <<99, 97, 116>>, <<116, 104, 101, 32, 99, 97, 116, 32, 115, 97, 116>> }

\* Texts typed into "Seed": "x", "".
SeedTexts == { <<120>>, <<>> }

\* Results of randomSeed(): "4fzyo82m", "i".
RandomSeeds == { <<52, 102, 122, 121, 111, 56, 50, 109>>, <<105>> }

\* setP(q), and the render that follows: both memos on p are recomputed.
SetP(q) ==
    /\ edits < MaxEdits
    /\ edits' = edits + 1
    /\ p' = q
    /\ glyphSingle' = generateSegments(q)
    /\ glyphBlendA' = generateSegments(q)
    /\ calls' = RenderCalls(mode, q, p2, TRUE, FALSE)
    /\ UNCHANGED <<mode, p2, blend, glyphBlendB>>
    /\ UNCHANGED <<hashVars, tokVars, genVars, rngVars>>

\* setP2(q), and the render that follows.
SetP2(q) ==
    /\ edits < MaxEdits
    /\ edits' = edits + 1
    /\ p2' = q
    /\ glyphBlendB' = generateSegments(q)
    /\ calls' = RenderCalls(mode, p, q, FALSE, TRUE)
    /\ UNCHANGED <<mode, p, blend, glyphSingle, glyphBlendA>>
    /\ UNCHANGED <<hashVars, tokVars, genVars, rngVars>>

SetMode(m) ==
    /\ mode' = m
    /\ calls' = RenderCalls(m, p, p2, FALSE, FALSE)
    /\ UNCHANGED <<p, p2, blend, glyphSingle, glyphBlendA, glyphBlendB, edits>>
    /\ UNCHANGED <<hashVars, tokVars, genVars, rngVars>>

SetProposition(text) == SetP([p EXCEPT !.proposition = text])

SetProposition2(text) ==
    /\ mode = "blend"
    /\ SetP2([p2 EXCEPT !.proposition = text])

SetBlend(v) ==
    /\ mode = "blend"
    /\ blend' = v
    /\ calls' = RenderCalls(mode, p, p2, FALSE, FALSE)
    /\ UNCHANGED <<mode, p, p2, glyphSingle, glyphBlendA, glyphBlendB, edits>>
    /\ UNCHANGED <<hashVars, tokVars, genVars, rngVars>>

SetCertainty(v) == SetP([p EXCEPT !.certainty = v])

SetModality(v) == SetP([p EXCEPT !.modality = v])

SetTemporality(v) == SetP([p EXCEPT !.temporality = v])

SetAgency(v) == SetP([p EXCEPT !.agency = v])

SetEmphasis(v) == SetP([p EXCEPT !.emphasis = v])

SetPerspective(v) == SetP([p EXCEPT !.perspective = v])

SetSeed(text) == SetP([p EXCEPT !.seed = text])

SetNegation(b) == SetP([p EXCEPT !.negation = b])

SetHypothetical(b) == SetP([p EXCEPT !.hypothetical = b])

\* "Randomize Seeds": setP(old => ...seed: randomSeed()), and the same on p2.
RandomizeSeeds(s1, s2) ==
    /\ edits < MaxEdits
    /\ edits' = edits + 1
    /\ p' = [p EXCEPT !.seed = s1]
    /\ p2' = [p2 EXCEPT !.seed = s2]
    /\ glyphSingle' = generateSegments(p')
    /\ glyphBlendA' = generateSegments(p')
    /\ glyphBlendB' = generateSegments(p2')
    /\ calls' = RenderCalls(mode, p', p2', TRUE, TRUE)
    /\ UNCHANGED <<mode, blend>>
    /\ UNCHANGED <<hashVars, tokVars, genVars, rngVars>>

\* "Reset".
Reset ==
    /\ edits < MaxEdits
    /\ edits' = edits + 1
    /\ p' = defaultParams
    /\ p2' = defaultParams2
    /\ blend' = 50
    /\ mode' = "single"
    /\ glyphSingle' = generateSegments(p')
    /\ glyphBlendA' = generateSegments(p')
    /\ glyphBlendB' = generateSegments(p2')
    /\ calls' = RenderCalls(mode', p', p2', TRUE, TRUE)
    /\ UNCHANGED <<hashVars, tokVars, genVars, rngVars>>

\* The component after its first render.
InitUI ==
    /\ mode = "single"
    /\ p = defaultParams
    /\ p2 = defaultParams2
    /\ blend = 50
    /\ glyphSingle = generateSegments(p)
    /\ glyphBlendA = generateSegments(p)
    /\ glyphBlendB = generateSegments(p2)
    /\ calls = RenderCalls(mode, p, p2, TRUE, TRUE)
    /\ edits = 0

Next ==
    \/ \E m \in Modes : SetMode(m)
    \/ \E text \in PropositionTexts : SetProposition(text)
    \/ \E text \in Proposition2Texts : SetProposition2(text)
    \/ \E v \in BlendValues : SetBlend(v)
    \/ \E v \in SliderValues : SetCertainty(v)
    \/ \E v \in SliderValues : SetModality(v)
    \/ \E v \in SliderValues : SetTemporality(v)
    \/ \E v \in SliderValues : SetAgency(v)
    \/ \E v \in SliderValues : SetEmphasis(v)
    \/ \E v \in Perspectives : SetPerspective(v)
    \/ \E text \in SeedTexts : SetSeed(text)
    \/ \E b \in BOOLEAN : SetNegation(b)
    \/ \E b \in BOOLEAN : SetHypothetical(b)
    \/ \E s1 \in RandomSeeds, s2 \in RandomSeeds : RandomizeSeeds(s1, s2)
    \/ Reset

---------------------------------------------------------------------------
(* Calls of the pure functions on their own.                               *)

\* The state of each call before it is made.
IdleHash == hashStr = <<>> /\ hashI = 1 /\ hashH = FnvOffset /\ hashRet = <<>>

IdleTok == tokText = <<>> /\ tokPc = "call" /\ tokWords = <<>>

IdleGen == genP = defaultParams /\ genOuts = <<>> /\ genWordCount = 0 /\ genCalls = 0

\* Two closures created with the seed 1, before any call.
IdleRng == rngSeed = <<U32(0, 1), U32(0, 1)>> /\ rngA = rngSeed /\ rngOut = << <<>>, <<>> >>

\* The component before it is mounted.
IdleUI ==
    /\ mode = "single"
    /\ p = defaultParams
    /\ p2 = defaultParams2
    /\ blend = 50
    /\ glyphSingle = <<>>
    /\ glyphBlendA = <<>>
    /\ glyphBlendB = <<>>
    /\ calls = <<>>
    /\ edits = 0

\* The strings of at most n code units drawn from the set A.
StringsUpTo(A, n) == UNION { [1..k -> A] : k \in 0..n }

---------------------------------------------------------------------------
(* The component.                                                          *)

Init == InitUI /\ IdleHash /\ IdleTok /\ IdleGen /\ IdleRng

Spec == Init /\ [][Next]_vars

---------------------------------------------------------------------------
(* hashStringToInt, one loop pass at a time.                               *)

\* The longest string hashed.
MaxHashLen == 4

\* Code units of the strings hashed: "a", "$", "1" and three Latin-1
\* letters; "Ì$1Ä" is a string the loop leaves h = 0 on.
HashUnits == {97, 36, 49, 196, 204}

InitHash ==
    /\ hashStr \in StringsUpTo(HashUnits, MaxHashLen)
    /\ hashI = 1
    /\ hashH = FnvOffset
    /\ hashRet = <<>>
    /\ IdleUI /\ IdleTok /\ IdleGen /\ IdleRng

\* for (let i = 0; i < str.length; i++) { ... }
HashLoop ==
    /\ hashRet = <<>>
    /\ hashI <= Len(hashStr)
    /\ hashH' = HashLoopBody(hashH, hashStr[hashI])
    /\ hashI' = hashI + 1
    /\ UNCHANGED <<hashStr, hashRet, uiVars, tokVars, genVars, rngVars>>

\* return (h >>> 0) || 1
HashExit ==
    /\ hashRet = <<>>
    /\ hashI > Len(hashStr)
    /\ hashRet' = HashReturn(hashH)
    /\ UNCHANGED <<hashStr, hashI, hashH, uiVars, tokVars, genVars, rngVars>>

NextHash == HashLoop \/ HashExit

SpecHash == InitHash /\ [][NextHash]_vars

---------------------------------------------------------------------------
(* splitContentWords on its own.                                           *)

\* The longest text drawn from TokUnits.
MaxTokLen == 4

\* "A", "a", "n", " ", "'", "1"
TokUnits == {65, 97, 110, 32, 39, 49}

\* "the cat sat", "The Cat's hat", "cat cat cat", "?!"
TokPhrases ==
    { <<116, 104, 101, 32, 99, 97, 116, 32, 115, 97, 116>>,
      <<84, 104, 101, 32, 67, 97, 116, 39, 115, 32, 104, 97, 116>>,
      <<99, 97, 116, 32, 99, 97, 116, 32, 99, 97, 116>>,
      <<63, 33>> }

InitTok ==
    /\ tokText \in StringsUpTo(TokUnits, MaxTokLen) \cup TokPhrases
    /\ tokPc = "call"
    /\ tokWords = <<>>
    /\ IdleUI /\ IdleHash /\ IdleGen /\ IdleRng

Tokenize ==
    /\ tokPc = "call"
    /\ tokWords' = splitContentWords(tokText)
    /\ tokPc' = "done"
    /\ UNCHANGED <<tokText, uiVars, hashVars, genVars, rngVars>>

NextTok == Tokenize

SpecTok == InitTok /\ [][NextTok]_vars

---------------------------------------------------------------------------
(* generateSegments on its own: calls with one argument, and calls with    *)
(* another argument between them.                                          *)

\* The largest number of words in a generated phrase.
MaxGenWords == 19

\* How many calls a behaviour makes.
MaxGenCalls == 3

\* "cat " n times.
RECURSIVE CatPhrase(_)
CatPhrase(n) == IF n = 0 THEN <<>> ELSE <<99, 97, 116, 32>> \o CatPhrase(n - 1)

\* The phrases generated from: n words for each n, a phrase of stop-words
\* only ("the a"), and one with no letter or digit ("?!").
GenPhrases ==
    { CatPhrase(n) : n \in 0..MaxGenWords }
    \cup { <<116, 104, 101, 32, 97>>, <<63, 33>> }

\* Seed texts: "arrival", "x".
GenSeeds == { SeedArrival, <<120>> }

GenTemporalities == {0, 50, 100}

InitGen ==
    /\ \E text \in GenPhrases, sd \in GenSeeds, t \in GenTemporalities :
          genP = [defaultParams EXCEPT !.proposition = text, !.seed = sd,
                                       !.temporality = t]
    /\ genOuts = <<>>
    /\ genWordCount = 0
    /\ genCalls = 0
    /\ IdleUI /\ IdleHash /\ IdleTok /\ IdleRng

\* A call generateSegments(genP).
Generate ==
    /\ genCalls < MaxGenCalls
    /\ genOuts' = Append(genOuts, generateSegments(genP))
    /\ genWordCount' = WordCountOrOne(splitContentWords(genP.proposition))
    /\ genCalls' = genCalls + 1
    /\ UNCHANGED <<genP, uiVars, hashVars, tokVars, rngVars>>

\* A call with another argument, whose result is dropped.
GenerateOther ==
    /\ genCalls < MaxGenCalls
    /\ generateSegments(defaultParams2).rings \in Int
    /\ genCalls' = genCalls + 1
    /\ UNCHANGED <<genP, genOuts, genWordCount, uiVars, hashVars, tokVars, rngVars>>

NextGen == Generate \/ GenerateOther

SpecGen == InitGen /\ [][NextGen]_vars

---------------------------------------------------------------------------
(* generateSegments called with one argument after another.                *)

\* How many calls a behaviour makes.
MaxDashCalls == 2

\* Certainty 0, 0.01, 0.68 and 1.
DashCertainties == {0, 1, 68, 100}

\* The arguments: the phrase "cat" at temporality 0, with every pair of
\* flags, and with other fields (seed, emphasis) varied.
DashInputs ==
    { [defaultParams EXCEPT !.proposition = <<99, 97, 116>>, !.temporality = 0,
                            !.certainty = c, !.negation = n, !.hypothetical = h,
                            !.emphasis = e, !.seed = sd] :
        c \in DashCertainties, n \in BOOLEAN, h \in BOOLEAN, e \in {0, 90},
        sd \in GenSeeds }

InitDash == IdleUI /\ IdleHash /\ IdleTok /\ IdleGen /\ IdleRng

\* A call generateSegments(q); the state keeps the last argument and result.
GenerateWith(q) ==
    /\ genCalls < MaxDashCalls
    /\ genP' = q
    /\ genOuts' = <<generateSegments(q)>>
    /\ genWordCount' = WordCountOrOne(splitContentWords(q.proposition))
    /\ genCalls' = genCalls + 1
    /\ UNCHANGED <<uiVars, hashVars, tokVars, rngVars>>

NextDash == \E q \in DashInputs : GenerateWith(q)

SpecDash == InitDash /\ [][NextDash]_vars

---------------------------------------------------------------------------
(* Two closures of mulberry32, called in any order.                        *)

\* How many times each closure is called.
MaxDraws == 3

\* The seeds: 1 (the least hashStringToInt returns), the seeds of the two
\* default phrases, and 2^32 - 1.
RngSeeds == { U32(0, 1), baseSeed(defaultParams), baseSeed(defaultParams2),
              U32(65535, 65535) }

\* const rnd = mulberry32(seed), twice.
InitRng ==
    /\ rngSeed \in RngSeeds \X RngSeeds
    /\ rngA = <<mulberry32(rngSeed[1]), mulberry32(rngSeed[2])>>
    /\ rngOut = << <<>>, <<>> >>
    /\ IdleUI /\ IdleHash /\ IdleTok /\ IdleGen

\* The variable closure i reads and writes: one generator for all.
StreamStateShared(i) == rngA[1]

\* The variable closure i reads and writes: its own a.
StreamState(i) == rngA[i]

\* One call of closure i.
Draw(i) ==
    /\ Len(rngOut[i]) < MaxDraws
    /\ rngA' = [rngA EXCEPT ![i] = MulberryAdvance(StreamState(i))]
    /\ rngOut' = [rngOut EXCEPT ![i] = Append(@, MulberryOutput(rngA'[i]))]
    /\ UNCHANGED <<rngSeed, uiVars, hashVars, tokVars, genVars>>

NextRng == \E i \in 1..2 : Draw(i)

SpecRng == InitRng /\ [][NextRng]_vars

---------------------------------------------------------------------------
(* Properties of the component.                                            *)

\* C1: when several callers ask for the grapheme of one key that was never
\* generated before, exactly one record is generated for the key, and every
\* caller gets the same seed: among the calls of generateSegments one
\* render makes, no two have the same key.
C1_OneGenerationPerKey ==
    \A i \in 1..Len(calls) : \A j \in 1..Len(calls) :
        calls[i].key = calls[j].key => (i = j /\ calls[i].seed = calls[j].seed)

\* C2: once a key has a record, a later request for the same key gets the
\* same record whatever parameters it carries: a step that keeps the key
\* (seed text and proposition) keeps the glyph generated for it.
C2_FirstWriterWins ==
    [][SeedKey(p') = SeedKey(p) => glyphSingle' = glyphSingle]_vars

\* The content words of a phrase.
ContentWords(text) ==
    { splitContentWords(text)[k] : k \in 1..Len(splitContentWords(text)) }

\* C3: the seed used for a word depends on the word only: a word that
\* occurs in both phrases on screen is drawn from the same seed in both,
\* whatever the rest of the phrase and whatever the seed text.
C3_WordSeedFromWordOnly ==
    \A w \in ContentWords(p.proposition) \cap ContentWords(p2.proposition) :
        baseSeed(p) = baseSeed(p2)

---------------------------------------------------------------------------
(* Properties of hashStringToInt.                                          *)

\* (x * 2^n) mod 2^32, for n < 16.
Shl32(x, n) ==
    <<((x[1] * (2 ^ n)) + (x[2] \div (2 ^ (16 - n)))) % B16, (x[2] * (2 ^ n)) % B16>>

\* (x * 16777619) mod 2^32 by shifts and additions:
\* 16777619 = 2^24 + 2^8 + 2^7 + 2^4 + 2 + 1.
TimesPrime(x) ==
    Add32(Add32(Add32(x, Shl32(x, 1)), Add32(Shl32(x, 4), Shl32(x, 7))),
          Add32(Shl32(x, 8), <<(x[2] * 256) % B16, 0>>))

\* The value of h after the code units of str, by the definition of FNV-1a.
RECURSIVE Fnv1a(_)
Fnv1a(str) ==
    IF str = <<>> THEN FnvOffset
    ELSE LET h == Fnv1a(SubSeq(str, 1, Len(str) - 1))
             c == str[Len(str)]
         IN  TimesPrime(<<h[1], BitXor(h[2], c)>>)

\* C4: for every string, the empty one included, hashStringToInt is a
\* function of the code units alone; each multiplication wraps modulo 2^32,
\* and the result is an unsigned 32-bit integer that is never zero: the
\* 32-bit FNV-1a value of the string, or 1 when that value is 0.
C4_HashIsNonZeroUint32 ==
    /\ IsU32(hashH)
    /\ hashH = Fnv1a(SubSeq(hashStr, 1, hashI - 1))
    /\ hashRet # <<>> =>
          /\ IsU32(hashRet)
          /\ hashRet # Zero32
          /\ hashRet = (IF Fnv1a(hashStr) = Zero32 THEN U32(0, 1) ELSE Fnv1a(hashStr))
          /\ hashRet = hashStringToInt(hashStr)
          /\ hashStr = <<>> => hashRet = U32(33052, 40389)
          /\ hashStr = <<97>> => hashRet = U32(58380, 10540)

\* The string "Ì$1Ä", whose FNV-1a value is 0, has been hashed to 1.
C4_ZeroHashBecomesOne ==
    /\ hashStr = <<204, 36, 49, 196>>
    /\ hashH = Zero32
    /\ hashRet = U32(0, 1)

---------------------------------------------------------------------------
(* Properties of generateSegments.                                         *)

\* Rings and spokes are in ascending index order in a result.
InIndexOrder(out) ==
    /\ \A i \in 1..Len(out.segments) : \A s \in 1..Len(out.segments[i]) :
          /\ out.segments[i][s].w.ring = i - 1
          /\ out.segments[i][s].d.r.ring = i - 1
          /\ out.segments[i][s].d.a0.spoke = s - 1
    /\ \A i \in 1..Len(out.connectors) : \A s \in 1..Len(out.connectors[i]) :
          /\ out.connectors[i][s].r0.ring = i - 1
          /\ out.connectors[i][s].r1.ring = i
          /\ out.connectors[i][s].a.spoke = s - 1

C9_NeverZeroContentWords ==
    \A k \in 1..Len(genOuts) :
        /\ genWordCount >= 1
        /\ splitContentWords(genP.proposition) = <<>> => genWordCount = 1
        /\ splitContentWords(genP.proposition) # <<>> =>
              genWordCount = Len(splitContentWords(genP.proposition))
        /\ genOuts[k].spokes = chooseSpokes(genWordCount)

\* A phrase of stop-words only ("the a") has been generated from a word
\* count of 1.
C9_StopWordsOnlyCountsOne ==
    /\ genP.proposition = <<116, 104, 101, 32, 97>>
    /\ Len(genOuts) >= 1
    /\ genWordCount = 1
    /\ genOuts[1].spokes = 7

---------------------------------------------------------------------------
(* Properties of the composite and blend renderings.                       *)

\* The groups on screen in composite mode.
Layers == CompositeGroups(mode, p)

\* The positions where a clause starts: a unit that is not white space and
\* has only white space between the start of its line and itself.
ClauseStarts(text) ==
    { i \in 1..Len(text) :
        /\ text[i] \notin WhiteSpaceUnits
        /\ \A j \in 1..(i - 1) :
              (\A m \in j..(i - 1) : text[m] # 10) => text[j] \in WhiteSpaceUnits }

\* Scale and opacity strictly decrease from each layer to the next.
LayersFade ==
    \A k \in 1..(Len(Layers) - 1) :
        /\ Layers[k + 1].scale < Layers[k].scale
        /\ Layers[k + 1].opacity < Layers[k].opacity

BlendLayers == BlendGroups(blend, p, p2, glyphBlendA, glyphBlendB)

\* C7: in blend mode each layer's opacity is linear in the weight, between
\* the same maximum (1) and the same minimum (0.35) for both layers: at
\* weight 0 phrase A is at the maximum and phrase B at the minimum, at
\* weight 1 the other way round.
C7_BlendOpacityLinear ==
    mode = "blend" =>
        /\ 100 * BlendLayers[1].opacity = ((100 - blend) * 10000) + (blend * 3500)
        /\ 100 * BlendLayers[2].opacity = ((100 - blend) * 3500) + (blend * 10000)
        /\ blend = 0 => BlendLayers[1].opacity = 10000 /\ BlendLayers[2].opacity = 3500
        /\ blend = 100 => BlendLayers[1].opacity = 3500 /\ BlendLayers[2].opacity = 10000
        /\ BlendLayers[1].params = p /\ BlendLayers[2].params = p2

\* The blend is shown at weight 1.
C7_BlendAtWeightOne ==
    /\ mode = "blend"
    /\ blend = 100
    /\ BlendLayers[2].opacity = 10000

---------------------------------------------------------------------------
(* Properties of splitContentWords.                                        *)

\* A letter, a digit or an apostrophe.
IsAlnumOrApostrophe(c) == c \in 97..122 \/ c \in 65..90 \/ c \in 48..57 \/ c = 39

\* The maximal runs of such units in a text, as <<first, last>>.
WordRuns(text) ==
    { r \in (1..Len(text)) \X (1..Len(text)) :
        /\ r[1] <= r[2]
        /\ \A i \in r[1]..r[2] : IsAlnumOrApostrophe(text[i])
        /\ r[1] > 1 => ~IsAlnumOrApostrophe(text[r[1] - 1])
        /\ r[2] < Len(text) => ~IsAlnumOrApostrophe(text[r[2] + 1]) }

\* The run r of a text in lower case.
LowerRun(text, r) ==
    [i \in 1..(r[2] - r[1] + 1) |->
        LET c == text[r[1] + i - 1] IN IF c \in 65..90 THEN c + 32 ELSE c]

\* The runs that are not stop-words.
ContentRuns(text) ==
    { r \in WordRuns(text) :
        LowerRun(text, r) \notin
            { <<116, 104, 101>>, <<97>>, <<97, 110>>, <<97, 110, 100>>,
              <<111, 114>>, <<98, 117, 116>>, <<105, 115>>, <<119, 97, 115>>,
              <<97, 109>>, <<97, 114, 101>> } }

\* C8: the words returned are exactly the runs of letters, digits and
\* apostrophes of the text, in lower case, without the stop-words, in the
\* order of the text and with repetitions kept: "the cat sat" gives "cat",
\* "sat", and a word written three times is returned three times.
C8_TokensAreContentRuns ==
    tokPc = "done" =>
        /\ Len(tokWords) = Cardinality(ContentRuns(tokText))
        /\ \A r \in ContentRuns(tokText) :
              tokWords[1 + Cardinality({r2 \in ContentRuns(tokText) : r2[1] < r[1]})]
                  = LowerRun(tokText, r)
        /\ tokText = <<116, 104, 101, 32, 99, 97, 116, 32, 115, 97, 116>>
              => tokWords = << <<99, 97, 116>>, <<115, 97, 116>> >>
        /\ tokText = <<99, 97, 116, 32, 99, 97, 116, 32, 99, 97, 116>>
              => tokWords = << <<99, 97, 116>>, <<99, 97, 116>>, <<99, 97, 116>> >>

\* "The Cat's hat" has been split into "cat's" and "hat".
C8_CapitalsAndApostrophe ==
    /\ tokPc = "done"
    /\ tokText = <<84, 104, 101, 32, 67, 97, 116, 39, 115, 32, 104, 97, 116>>
    /\ tokWords = << <<99, 97, 116, 39, 115>>, <<104, 97, 116>> >>

---------------------------------------------------------------------------
(* Properties of the dash pattern.                                         *)

\* The dash attributes of the segments of a result.
Dashes(out) ==
    { out.segments[i][s].dash :
        i \in 1..Len(out.segments), s \in 1..Len(out.segments[1]) }

\* C11 as stated: the dash pattern is a lookup over negation and
\* hypothetical only: a call whose argument has the same two flags as the
\* argument of the call before gives the same dash pattern, whatever the
\* other fields, certainty included.
C11_DashFromFlagsOnly ==
    [][(/\ genOuts # <<>>
        /\ genOuts' # <<>>
        /\ genP'.negation = genP.negation
        /\ genP'.hypothetical = genP.hypothetical)
           => Dashes(genOuts'[1]) = Dashes(genOuts[1])]_vars

\* C11, amended: every segment of a result has the same dash pattern;
\* neither flag set gives no dash, and each other pair of flags selects one
\* profile of two lengths that are linear in certainty, written to one
\* decimal: negation alone from "9.0 2.0" at certainty 0 to "4.0 4.0" at 1,
\* hypothetical alone from "4.0 1.0" to "1.5 3.0", both from "2.0 3.0" to
\* "6.0 1.0".  A call whose argument has the same flags and the same
\* certainty as the argument before gives the same dash pattern.
C11_DashFromFlagsAndCertainty ==
    [][genOuts' # <<>> =>
        LET q == genP'
            D == Dashes(genOuts'[1])
            neg == q.negation /\ ~q.hypothetical
            hyp == q.hypothetical /\ ~q.negation
            both == q.negation /\ q.hypothetical
        IN  /\ Cardinality(D) = 1
            /\ (D = {<<>>}) <=> (~q.negation /\ ~q.hypothetical)
            /\ neg /\ q.certainty = 0 => D = {<< <<57, 46, 48, 32, 50, 46, 48>> >>}
            /\ neg /\ q.certainty = 100 => D = {<< <<52, 46, 48, 32, 52, 46, 48>> >>}
            /\ hyp /\ q.certainty = 0 => D = {<< <<52, 46, 48, 32, 49, 46, 48>> >>}
            /\ hyp /\ q.certainty = 100 => D = {<< <<49, 46, 53, 32, 51, 46, 48>> >>}
            /\ both /\ q.certainty = 0 => D = {<< <<50, 46, 48, 32, 51, 46, 48>> >>}
            /\ both /\ q.certainty = 100 => D = {<< <<54, 46, 48, 32, 49, 46, 48>> >>}
            /\ (/\ genOuts # <<>>
                /\ q.negation = genP.negation
                /\ q.hypothetical = genP.hypothetical
                /\ q.certainty = genP.certainty)
                   => D = Dashes(genOuts[1])]_vars

\* Negation alone at certainty 0 has been generated after another call:
\* the dash is "9.0 2.0".
C11_NegationAloneAtZero ==
    /\ genCalls = 2
    /\ genP.negation /\ ~genP.hypothetical
    /\ genP.certainty = 0
    /\ Dashes(genOuts[1]) = {<< <<57, 46, 48, 32, 50, 46, 48>> >>}

---------------------------------------------------------------------------
(* Properties of mulberry32.                                               *)

\* C12: each stream carries only its own state: the values a stream has
\* returned are those the same seed gives when drawn alone, whatever calls
\* of the other stream came in between (two streams with one seed return
\* the same values); after n calls the state is the seed plus n times the
\* increment 0x6d2b79f5, modulo 2^32, and every value returned is in [0, 1)
\* (a numerator below 2^32 over 2^32).
C12_StreamsAreIndependent ==
    /\ \A i \in 1..2 :
          LET n == Len(rngOut[i])
          IN  /\ rngOut[i] = MulberryDraws(rngSeed[i], n)
              /\ ToUint32(rngA[i]) = Add32(rngSeed[i], Imul(U32(0, n), MulberryIncrement))
              /\ \A k \in 1..n : IsU32(rngOut[i][k])
              /\ (rngSeed[i] = U32(0, 1) /\ n >= 2) =>
                    /\ rngOut[i][1] = U32(41095, 60147)
                    /\ rngOut[i][2] = U32(179, 18889)
              /\ (rngSeed[i] = U32(65535, 65535) /\ n >= 1) =>
                    rngOut[i][1] = U32(58747, 62419)
    /\ rngSeed[1] = rngSeed[2] =>
          \A k \in 1..Len(rngOut[1]) :
              k <= Len(rngOut[2]) => rngOut[1][k] = rngOut[2][k]

\* Two streams with the seed 2^32 - 1 have each been called twice, and the
\* variable a of each has passed 2^32.
C12_SameSeedBothDrawn ==
    /\ rngSeed = <<U32(65535, 65535), U32(65535, 65535)>>
    /\ Len(rngOut[1]) = 2
    /\ Len(rngOut[2]) = 2
    /\ rngOut[1] = rngOut[2]
    /\ rngA[1][1] >= B16

===========================================================================
